---- MODULE Spec2Model ----
(***************************************************************************)
(* Model of the Dark Watch web client's API client (src/src/lib/api.ts):   *)
(* the session entries kept in localStorage, the generic request           *)
(* operation, and the operations built on it.                              *)
(*                                                                         *)
(* A JavaScript string is a sequence of text atoms, so that template       *)
(* literals are concatenations and String.includes is a search for a       *)
(* contiguous run.  A value that may be null/undefined is a sequence of    *)
(* length at most one: <<>> is null/undefined, <<v>> is the value v.       *)
(*                                                                         *)
(* The runtime is single threaded: a step of the model is one run of       *)
(* client code between two points where it waits for the network (the      *)
(* fetch, the read of the response body).  Promise hand-offs between the   *)
(* request operation and its caller run in the same turn and belong to     *)
(* the same step.                                                          *)
(***************************************************************************)
EXTENDS Integers, Sequences, FiniteSets, Bags, TLC

VARIABLES storage, calls, event, view, tasks

vars == <<storage, calls, event, view, tasks>>

(* ---------------------------------------------------------------------- *)
(* Bounds                                                                  *)
(* ---------------------------------------------------------------------- *)

\* largest number of client calls waiting for the network at one time
MaxCalls == 2

(* ---------------------------------------------------------------------- *)
(* Values                                                                  *)
(* ---------------------------------------------------------------------- *)

None == <<>>

Some(v) == <<v>>

\* the empty JavaScript string
EmptyString == <<>>

\* truthiness of a string-or-null value: null, undefined and '' are falsy
Truthy(opt) == opt # None /\ opt[1] # EmptyString

\* String.prototype.includes
Includes(s, needle) ==
    \E i \in 0..(Len(s) - Len(needle)) : SubSeq(s, i + 1, i + Len(needle)) = needle

\* String.prototype.startsWith
StartsWith(s, prefix) ==
    Len(prefix) <= Len(s) /\ SubSeq(s, 1, Len(prefix)) = prefix

\* token strings a backend or a caller may supply
Tokens == {EmptyString, <<"tok123">>, <<"tok456">>}

\* user objects a backend or a caller may supply
Users == {[user_id |-> "u1"], [user_id |-> "u2"]}

\* job ids: a plain one, and one whose text contains a path of its own
JobIds == {<<"j1">>, <<"x", "/auth", "/login">>}

\* result limits a caller may pass to getJobResults (none, or a number)
Limits == {None, Some(0), Some(50)}

\* HTTP status codes a backend may answer with
Statuses == {200, 400, 401, 500}

\* Response.ok
Ok(status) == status >= 200 /\ status <= 299

(* ---------------------------------------------------------------------- *)
(* Session store: localStorage entries 'auth_token' and 'user'             *)
(* ---------------------------------------------------------------------- *)

NoStorage == [k \in {} |-> EmptyString]

\* localStorage.getItem: null for a missing key
getItem(st, k) == IF k \in DOMAIN st THEN Some(st[k]) ELSE None

\* localStorage.setItem
setItem(st, k, v) == [x \in (DOMAIN st) \cup {k} |-> IF x = k THEN v ELSE st[x]]

\* localStorage.removeItem
removeItem(st, k) == [x \in (DOMAIN st) \ {k} |-> st[x]]

\* JSON.stringify of a user object; of undefined it yields undefined, which
\* setItem stores as the text 'undefined'
JSONstringify(optUser) ==
    IF optUser = None THEN <<"undefined">>
    ELSE <<"{user_id:", optUser[1].user_id, "}">>

getStoredToken(st) == getItem(st, "auth_token")

setStoredToken(st, token) == setItem(st, "auth_token", token)

clearStoredToken(st) == removeItem(st, "auth_token")

setStoredUser(st, optUser) == setItem(st, "user", JSONstringify(optUser))

clearStoredUser(st) == removeItem(st, "user")

\* a mutant of isAuthenticated that tests the token for truthiness
isAuthenticated_Truthy(st) == Truthy(getStoredToken(st))

isAuthenticated(st) == getStoredToken(st) # None

\* the two clearing statements that always occur together
ClearSession(st) == clearStoredUser(clearStoredToken(st))

\* a mutant of ClearOn401 that forgets the cached user
ClearOn401_TokenOnly(st) == clearStoredToken(st)

\* what request() does to the store on a 401 response
ClearOn401(st) == ClearSession(st)

\* the two storing statements that always occur together
StoreSession(st, token, optUser) == setStoredUser(setStoredToken(st, token), optUser)

(* ---------------------------------------------------------------------- *)
(* Response bodies and thrown errors                                       *)
(* ---------------------------------------------------------------------- *)

\* a response body: json is FALSE when the text is not JSON; the fields are
\* those the client reads (an absent field is None)
Body(json, success, token, user, error, message) ==
    [json |-> json, success |-> success, token |-> token, user |-> user,
     error |-> error, message |-> message]

NoBody == Body(FALSE, FALSE, None, None, None, None)

U1 == [user_id |-> "u1"]

U2 == [user_id |-> "u2"]

\* bodies a backend may send with a success status
OkBodies ==
    { Body(TRUE, TRUE, Some(<<"tok123">>), Some(U1), None, None),
      Body(TRUE, TRUE, Some(<<"tok456">>), Some(U2), None, None),
      Body(TRUE, TRUE, Some(EmptyString), Some(U1), None, None),
      Body(TRUE, TRUE, None, Some(U1), None, Some(<<"done">>)),
      Body(TRUE, TRUE, Some(<<"tok123">>), None, None, None),
      Body(TRUE, FALSE, Some(<<"tok123">>), Some(U1), None, None),
      Body(TRUE, FALSE, None, None, None, Some(<<"failed">>)),
      NoBody }

\* bodies a backend may send with an error status
ErrorBodies ==
    { NoBody,
      Body(TRUE, FALSE, None, None, None, None),
      Body(TRUE, FALSE, None, None, Some(<<"invalid credentials">>), None),
      Body(TRUE, FALSE, None, None, Some(<<"invalid credentials">>), Some(<<"failed">>)),
      Body(TRUE, FALSE, None, None, None, Some(<<"failed">>)),
      Body(TRUE, FALSE, None, None, Some(EmptyString), Some(<<"failed">>)),
      Body(TRUE, FALSE, None, None, Some(EmptyString), Some(EmptyString)),
      Body(TRUE, FALSE, None, None, Some(<<"Authentication failed", " upstream">>), None),
      Body(TRUE, FALSE, None, None,
           Some(<<"Authentication failed", ". Please login again.">>), None) }

\* a thrown value: an Error object with its message, or some other value
Thrown(isError, message) == [isError |-> isError, message |-> message]

\* what fetch rejects with when no response arrives
FetchError == Thrown(TRUE, <<"Failed to fetch">>)

\* what Response.json rejects with when the text is not JSON
JsonSyntaxError == Thrown(TRUE, <<"Unexpected token">>)

AuthFailedMessage == <<"Authentication failed", ". Please login again.">>

NetworkErrorPrefix == <<"Network error: ">>

\* the template literal `HTTP ${response.status}`
HttpStatusMessage(status) == <<"HTTP ", ToString(status)>>

(* ---------------------------------------------------------------------- *)
(* The request operation                                                   *)
(* ---------------------------------------------------------------------- *)

\* the Authorization header request() puts on the outgoing request, if any
AuthorizationHeader(token, endpoint) ==
    IF /\ Truthy(token)
       /\ ~Includes(endpoint, <<"/auth", "/login">>)
       /\ ~Includes(endpoint, <<"/auth", "/register">>)
    THEN Some(<<"Bearer ">> \o token[1])
    ELSE None

\* errorData.error || errorData.message || `HTTP ${status}`, and the
\* fallback when the body does not parse
ErrorMessage(body, status) ==
    IF ~body.json THEN HttpStatusMessage(status)
    ELSE IF Truthy(body.error) THEN body.error[1]
    ELSE IF Truthy(body.message) THEN body.message[1]
    ELSE HttpStatusMessage(status)

\* a mutant of RequestCatch that wraps every error as a network error
RequestCatch_WrapsAll(thrown) ==
    Thrown(TRUE, NetworkErrorPrefix \o
                 (IF thrown.isError THEN thrown.message ELSE <<"Unknown error">>))

\* the catch block of request(): what it throws for a value thrown in the try
RequestCatch(thrown) ==
    IF thrown.isError /\ Includes(thrown.message, <<"Authentication failed">>)
    THEN thrown
    ELSE Thrown(TRUE, NetworkErrorPrefix \o
                      (IF thrown.isError THEN thrown.message ELSE <<"Unknown error">>))

\* how a promise settles: resolved with a body, or rejected with an error
Resolved(body) == [settled |-> "resolved", body |-> body, error |-> EmptyString]

Rejected(thrown) == [settled |-> "rejected", body |-> NoBody, error |-> thrown.message]

(* ---------------------------------------------------------------------- *)
(* Endpoints of the client operations                                      *)
(* ---------------------------------------------------------------------- *)

RegisterEndpoint == <<"/api", "/auth", "/register">>

LoginEndpoint == <<"/api", "/auth", "/login">>

LogoutEndpoint == <<"/api", "/auth", "/logout">>

ProfileEndpoint == <<"/api", "/auth", "/profile">>

JobsEndpoint == <<"/api", "/jobs">>

\* `/api/jobs/${jobId}`
JobEndpoint(jobId) == <<"/api", "/jobs", "/">> \o jobId

\* `/api/jobs/${jobId}/results${params}`, params = limit ? `?limit=${limit}` : ''
JobResultsEndpoint(jobId, limit) ==
    JobEndpoint(jobId) \o <<"/results">> \o
    (IF limit # None /\ limit[1] # 0 THEN <<"?limit=", ToString(limit[1])>> ELSE <<>>)

StatusEndpoint == <<"/api", "/status">>

HealthEndpoint == <<"/api", "/health">>

\* the operations that hand the request's outcome to their caller unchanged
PlainOps == {"getProfile", "createJob", "getJobs", "getJob", "startJob", "stopJob",
             "pauseJob", "deleteJob", "getJobResults", "getJobStats", "getStatus",
             "getHealth"}

(* ---------------------------------------------------------------------- *)
(* What each operation does with the outcome of its request                *)
(* ---------------------------------------------------------------------- *)

\* the outcome of a client call: the session store it leaves, how its promise
\* settles, and the boolean it returns (validateToken only)
Outcome(st, out, ret) ==
    [storage |-> st, settled |-> out.settled, body |-> out.body,
     error |-> out.error, ret |-> ret]

\* a mutant of AfterRegister that stores whatever token the response has,
\* without looking at success
AfterRegister_IgnoresSuccess(st, out) ==
    IF out.settled = "resolved"
    THEN Outcome(IF Truthy(out.body.token)
                 THEN StoreSession(st, out.body.token[1], out.body.user)
                 ELSE st,
                 out, "none")
    ELSE Outcome(st, out, "none")

AfterRegister(st, out) ==
    IF out.settled = "resolved"
    THEN Outcome(IF out.body.success /\ Truthy(out.body.token)
                 THEN StoreSession(st, out.body.token[1], out.body.user)
                 ELSE st,
                 out, "none")
    ELSE Outcome(st, out, "none")

\* a mutant of AfterLogin that returns the response without persisting it
AfterLogin_NoStore(st, out) == Outcome(st, out, "none")

AfterLogin(st, out) ==
    IF out.settled = "resolved"
    THEN Outcome(IF out.body.success /\ Truthy(out.body.token)
                 THEN StoreSession(st, out.body.token[1], out.body.user)
                 ELSE st,
                 out, "none")
    ELSE Outcome(st, out, "none")

LogoutFailedBody ==
    Body(TRUE, FALSE, None, None, None,
         Some(<<"Logout request failed but local session cleared">>))

\* a mutant of AfterLogout that clears the session in the catch block only
AfterLogout_ClearInCatch(st, out) ==
    IF out.settled = "resolved"
    THEN Outcome(st, out, "none")
    ELSE Outcome(ClearSession(st), Resolved(LogoutFailedBody), "none")

AfterLogout(st, out) ==
    Outcome(ClearSession(st),
            IF out.settled = "resolved" THEN out ELSE Resolved(LogoutFailedBody),
            "none")

\* a mutant of AfterValidateToken that reports a failure without clearing
AfterValidateToken_NoClear(st, out) ==
    IF out.settled = "resolved"
    THEN Outcome(st, Resolved(NoBody), "true")
    ELSE Outcome(st, Resolved(NoBody), "false")

AfterValidateToken(st, out) ==
    IF out.settled = "resolved"
    THEN Outcome(st, Resolved(NoBody), "true")
    ELSE Outcome(ClearSession(st), Resolved(NoBody), "false")

\* a mutant of AfterPlain that drops the session whenever the request fails
AfterPlain_ClearsOnFailure(st, out) ==
    Outcome(IF out.settled = "rejected" THEN ClearSession(st) ELSE st, out, "none")

AfterPlain(st, out) == Outcome(st, out, "none")

AfterRequest(op, st, out) ==
    CASE op = "register" -> AfterRegister(st, out)
      [] op = "login" -> AfterLogin(st, out)
      [] op = "logout" -> AfterLogout(st, out)
      [] op \in {"validateToken", "initializeAuth"} -> AfterValidateToken(st, out)
      [] OTHER -> AfterPlain(st, out)

(* ---------------------------------------------------------------------- *)
(* Views: router, component state, form validation                         *)
(* ---------------------------------------------------------------------- *)

RootPath == <<"/">>

AuthPath == <<"/auth">>

DashboardPath == <<"/dashboard">>

NewJobPath == <<"/jobs", "/new">>

\* `/jobs/${jobId}/results`
ResultsPath(jobId) == <<"/jobs", "/">> \o jobId \o <<"/results">>

Page(page, jobId) == [redirect |-> FALSE, to |-> <<>>, page |-> page, jobId |-> jobId]

Navigate(to) == [redirect |-> TRUE, to |-> to, page |-> "none", jobId |-> None]

\* a mutant of ProtectedRoute that renders its children whatever the store
ProtectedRoute_Open(st, children) == children

\* ProtectedRoute: the children if a token is cached, else a redirect
ProtectedRoute(st, children) ==
    IF isAuthenticated(st) THEN children ELSE Navigate(AuthPath)

\* the element the route table of App renders for a path; the pattern
\* /jobs/:jobId/results matches one segment between the two, a text that
\* starts no segment of its own
Routes(path, st) ==
    LET MatchesResults ==
            /\ Len(path) = 4
            /\ path[1] = "/jobs" /\ path[2] = "/" /\ path[4] = "/results"
            /\ path[3] \notin {"/", "/auth", "/dashboard", "/jobs", "/new",
                                "/results"}
    IN CASE path = RootPath ->
                Navigate(IF isAuthenticated(st) THEN DashboardPath ELSE AuthPath)
         [] path = AuthPath -> Page("auth", None)
         [] path = DashboardPath -> ProtectedRoute(st, Page("dashboard", None))
         [] path = NewJobPath -> ProtectedRoute(st, Page("newjob", None))
         [] MatchesResults ->
                ProtectedRoute(st, Page("results", Some(<<path[3]>>)))
         [] OTHER -> Page("notfound", None)

\* the page a navigation to path ends at, redirects followed
RECURSIVE Resolve(_, _)
Resolve(path, st) ==
    LET element == Routes(path, st) IN
    IF element.redirect THEN Resolve(element.to, st) ELSE element

\* a job as the backend reports it
Job(jobId, status, changes) ==
    [job_id |-> jobId, status |-> status, changes_detected |-> changes]

\* a detected change of a job
JobResult(type, detectedAt) == [type |-> type, detected_at |-> detectedAt]

\* new Date(s).getTime() of an ISO timestamp, given as its date, its time of
\* day and its zone: minutes since 2024-01-01T00:00Z
DateGetTime(s) ==
    LET day == CASE s[1] = "2024-01-01" -> 0
                 [] s[1] = "2024-01-02" -> 1
        minutes == CASE s[2] = "T00:30" -> 30
                     [] s[2] = "T23:30" -> 1410
        offset == CASE s[3] = "Z" -> 0
                    [] s[3] = "+02:00" -> 120
    IN day * 1440 + minutes - offset

\* a mutant of the comparator that puts older results first
CompareResults_Ascending(a, b) ==
    IF a.type = "new_portfolio_companies" /\ b.type # "new_portfolio_companies"
    THEN 0 - 1
    ELSE IF b.type = "new_portfolio_companies" /\ a.type # "new_portfolio_companies"
    THEN 1
    ELSE DateGetTime(a.detected_at) - DateGetTime(b.detected_at)

\* the comparator of sortedResults: negative if a goes first
CompareResults(a, b) ==
    IF a.type = "new_portfolio_companies" /\ b.type # "new_portfolio_companies"
    THEN 0 - 1
    ELSE IF b.type = "new_portfolio_companies" /\ a.type # "new_portfolio_companies"
    THEN 1
    ELSE DateGetTime(b.detected_at) - DateGetTime(a.detected_at)

\* [...results].sort(compare): a new array, sorted stably (each element goes
\* behind the ones already placed that do not come after it)
sortedResults(results) ==
    LET Insert(sorted, x) ==
            LET behind == {i \in DOMAIN sorted : CompareResults(sorted[i], x) > 0}
                at == IF behind = {} THEN Len(sorted) + 1
                      ELSE CHOOSE i \in behind : \A j \in behind : i <= j
            IN SubSeq(sorted, 1, at - 1) \o <<x>> \o SubSeq(sorted, at, Len(sorted))
        RECURSIVE Sort(_, _)
        Sort(sorted, rest) ==
            IF rest = <<>> THEN sorted
            ELSE Sort(Insert(sorted, Head(rest)), Tail(rest))
    IN Sort(<<>>, results)

\* a response body with the payload fields the views read
WithPayload(body, jobs, job, results) ==
    [json |-> body.json, success |-> body.success, token |-> body.token,
     user |-> body.user, error |-> body.error, message |-> body.message,
     jobs |-> jobs, job |-> job, results |-> results]

\* a mutant of the job card that offers to pause a paused job again
ActionsOffered_PauseWhenPaused(status) ==
    CASE status \in {"created", "stopped"} -> {"start"}
      [] status = "running" -> {"pause", "stop"}
      [] status = "paused" -> {"pause", "stop"}
      [] status = "error" -> {"start"}
      [] OTHER -> {}

\* the buttons a job card offers for a status, delete apart
ActionsOffered(status) ==
    CASE status \in {"created", "stopped"} -> {"start"}
      [] status = "running" -> {"pause", "stop"}
      [] status = "paused" -> {"start", "stop"}
      [] status = "error" -> {"start"}
      [] OTHER -> {}

\* component state after mounting
InitialDashboard == [user |-> None, jobs |-> <<>>, isLoading |-> TRUE]

InitialJobResults == [job |-> None, results |-> <<>>, isLoading |-> TRUE]

NoErrors == [email |-> "", password |-> "", name |-> "", url |-> "",
             check_interval_minutes |-> ""]

InitialAuth ==
    [mode |-> "login", isLoading |-> FALSE, email |-> EmptyString,
     password |-> EmptyString, errors |-> NoErrors]

InitialNewJob ==
    [name |-> EmptyString, url |-> EmptyString, check_interval_minutes |-> 5,
     typed |-> None, isLoading |-> FALSE, errors |-> NoErrors]

NoToast == [title |-> "", variant |-> ""]

\* what one turn of view code did: the handler that ran, whether its
\* component was mounted and whether it ran to its end, the operations it
\* called, the location it went to and the notification it showed
NoDid ==
    [kind |-> "none", handler |-> "", arg |-> "", live |-> FALSE,
     finished |-> FALSE, sent |-> <<>>, navigated |-> <<>>, toast |-> NoToast]

\* nothing is displayed: the application has not been opened
NoView ==
    [page |-> "none", jobId |-> None,
     dashboard |-> InitialDashboard, jobResults |-> InitialJobResults,
     auth |-> InitialAuth, newJob |-> InitialNewJob, did |-> NoDid]

Whitespace == {" "}

\* String.prototype.trim, over a string given character by character
Trim(s) ==
    LET kept == {i \in DOMAIN s : s[i] \notin Whitespace} IN
    IF kept = {} THEN EmptyString
    ELSE SubSeq(s, CHOOSE i \in kept : \A j \in kept : i <= j,
                   CHOOSE i \in kept : \A j \in kept : j <= i)

\* /\S+@\S+\.\S+/.test(s): the pattern is not anchored, so it is looked for
\* anywhere in s
MatchesEmailPattern(s) ==
    \E i, j \in 1..Len(s) :
        /\ s[i] = "@" /\ s[j] = "."
        /\ i > 1 /\ j > i + 1 /\ j < Len(s)
        /\ s[i - 1] \notin Whitespace /\ s[j + 1] \notin Whitespace
        /\ \A k \in (i + 1)..(j - 1) : s[k] \notin Whitespace

\* a mutant of the auth form's validateForm that accepts any password
AuthFormValidateForm_AnyPassword(email, password) ==
    [NoErrors EXCEPT
        !.email = IF email = EmptyString THEN "Email is required"
                  ELSE IF ~MatchesEmailPattern(email) THEN "Please enter a valid email"
                  ELSE ""]

\* AuthForm.validateForm: the errors it records
AuthFormValidateForm(email, password) ==
    [NoErrors EXCEPT
        !.email = IF email = EmptyString THEN "Email is required"
                  ELSE IF ~MatchesEmailPattern(email) THEN "Please enter a valid email"
                  ELSE "",
        !.password = IF password = EmptyString THEN "Password is required"
                     ELSE IF Len(password) < 6
                     THEN "Password must be at least 6 characters"
                     ELSE ""]

\* new URL(s) does not throw: s, surrounding whitespace stripped, is an
\* absolute URL, a scheme followed by something other than a bare "//"
ParsesAsURL(s) ==
    LET t == Trim(s) IN
    /\ Len(t) >= 2
    /\ t[1] \in {"http:", "https:", "mailto:"}
    /\ t[2] # "//" \/ Len(t) >= 3

\* the decimal digits, the digit of value n at index n + 1
Digits == <<"0", "1", "2", "3", "4", "5", "6", "7", "8", "9">>

\* parseInt(text): leading whitespace, a sign, the longest run of digits;
\* NaN (None) when no digit follows
ParseInt(text) ==
    LET IsDigit(ch) == \E n \in DOMAIN Digits : Digits[n] = ch
        Value(ch) == (CHOOSE n \in DOMAIN Digits : Digits[n] = ch) - 1
        RECURSIVE Skip(_)
        Skip(s) == IF s # <<>> /\ Head(s) \in Whitespace THEN Skip(Tail(s)) ELSE s
        RECURSIVE Leading(_, _)
        Leading(s, acc) ==
            IF s # <<>> /\ IsDigit(Head(s))
            THEN Leading(Tail(s), 10 * acc + Value(Head(s)))
            ELSE acc
        t == Skip(text)
        negative == t # <<>> /\ Head(t) = "-"
        signed == t # <<>> /\ Head(t) \in {"-", "+"}
        digits == IF signed THEN Tail(t) ELSE t
    IN IF digits = <<>> \/ ~IsDigit(Head(digits))
       THEN None
       ELSE Some(IF negative THEN 0 - Leading(digits, 0) ELSE Leading(digits, 0))

\* parseInt(e.target.value) || 1: NaN and 0 are falsy
IntervalTyped(text) ==
    LET n == ParseInt(text) IN
    IF n = None \/ n = Some(0) THEN 1 ELSE n[1]

\* NewJob.validateForm: the errors it records
NewJobValidateForm(formData) ==
    [NoErrors EXCEPT
        !.name = IF Trim(formData.name) = EmptyString THEN "Job name is required"
                 ELSE "",
        !.url = IF Trim(formData.url) = EmptyString THEN "URL is required"
                ELSE IF ~ParsesAsURL(formData.url) THEN "Please enter a valid URL"
                ELSE "",
        !.check_interval_minutes =
            IF formData.check_interval_minutes < 1
            THEN "Check interval must be at least 1 minute"
            ELSE IF formData.check_interval_minutes > 1440
            THEN "Check interval cannot exceed 1440 minutes (24 hours)"
            ELSE ""]

(* ---------------------------------------------------------------------- *)
(* State                                                                   *)
(* ---------------------------------------------------------------------- *)

\* a client call waiting for the network: the operation, where its request
\* stands (waiting for the response, or for the body of a success / error
\* response), and the status of the response once it has one
Call(op, pc, status) == [op |-> op, pc |-> pc, status |-> status]

\* the latest thing the client did that the outside can observe: a request
\* handed to fetch, or a call settled towards its caller
\* (for a settled call: whether a token was cached when the step began, the
\* status and body of the response, how the request itself ended, whether
\* request() itself changed the store, and what the caller of the operation
\* gets)
NoEvent ==
    [kind |-> "none", op |-> "none", endpoint |-> <<>>, method |-> "none",
     authorization |-> None, hadToken |-> FALSE, status |-> 0,
     received |-> NoBody, request |-> "none", requestWrote |-> FALSE,
     settled |-> "none",
     body |-> NoBody, error |-> EmptyString, ret |-> "none"]

SentEvent(op, endpoint, method, authorization) ==
    [NoEvent EXCEPT !.kind = "sent", !.op = op, !.endpoint = endpoint,
                    !.method = method, !.authorization = authorization]

SettledEvent(op, hadToken, status, received, out, r) ==
    [NoEvent EXCEPT !.kind = "settled", !.op = op, !.hadToken = hadToken,
                    !.status = status, !.received = received,
                    !.request = out.settled, !.settled = r.settled,
                    !.body = r.body, !.error = r.error, !.ret = r.ret]

Init ==
    /\ storage = NoStorage
    /\ calls = EmptyBag
    /\ event = NoEvent
    /\ view = NoView
    /\ tasks = EmptyBag

InFlight == BagToSet(calls)

\* at most n calls wait for the network
Room(n) == BagCardinality(calls) < n

(* ---------------------------------------------------------------------- *)
(* Steps of the request operation                                          *)
(* ---------------------------------------------------------------------- *)

\* the client as a value: the store, the calls in flight, the last event
Client == [storage |-> storage, calls |-> calls, event |-> event]

\* the client becomes cs; it is used on its own, no view is involved
Becomes(cs) ==
    /\ storage' = cs.storage
    /\ calls' = cs.calls
    /\ event' = cs.event
    /\ UNCHANGED <<view, tasks>>

\* request(), up to the fetch: reads the token, builds the headers, sends
Sent(cs, op, endpoint, method) ==
    [cs EXCEPT !.calls = @ (+) SetToBag({Call(op, "fetch", 0)}),
               !.event = SentEvent(op, endpoint, method,
                                   AuthorizationHeader(getStoredToken(cs.storage), endpoint))]

Send(op, endpoint, method) == Becomes(Sent(Client, op, endpoint, method))

\* the request of call c ends with outcome out, after leaving the store st;
\* the operation that made it runs on in the same turn
Settled(cs, c, status, received, st, out) ==
    LET r == AfterRequest(c.op, st, out) IN
    [storage |-> r.storage,
     calls |-> cs.calls (-) SetToBag({c}),
     event |-> [SettledEvent(c.op, isAuthenticated(cs.storage), status, received, out, r)
                    EXCEPT !.requestWrote = (st # cs.storage)]]

\* fetch rejects: no response arrived
FetchFailed(cs, c) ==
    Settled(cs, c, 0, NoBody, cs.storage, Rejected(RequestCatch(FetchError)))

FetchFails(c) ==
    /\ c \in InFlight /\ c.pc = "fetch"
    /\ Becomes(FetchFailed(Client, c))

\* fetch resolves with a response of the given status; unless it is a 401,
\* the call moves on to reading the body
FetchResponded(cs, c, status) ==
    LET AwaitBody(pc) ==
            [cs EXCEPT !.calls = (@ (-) SetToBag({c}))
                                 (+) SetToBag({Call(c.op, pc, status)})]
    IN IF Ok(status)
       THEN AwaitBody("okbody")
       ELSE IF status = 401
       THEN Settled(cs, c, status, NoBody, ClearOn401(cs.storage),
                    Rejected(RequestCatch(Thrown(TRUE, AuthFailedMessage))))
       ELSE AwaitBody("errbody")

FetchResponds(c, status) ==
    /\ c \in InFlight /\ c.pc = "fetch"
    /\ Becomes(FetchResponded(Client, c, status))

\* the body of an error response has been read
ErrorBodyWasRead(cs, c, body) ==
    Settled(cs, c, c.status, body, cs.storage,
            Rejected(RequestCatch(Thrown(TRUE, ErrorMessage(body, c.status)))))

ErrorBodyRead(c, body) ==
    /\ c \in InFlight /\ c.pc = "errbody"
    /\ Becomes(ErrorBodyWasRead(Client, c, body))

\* the body of a success response has been read; request() returns the
\* promise of response.json() without awaiting it, so a body that is not
\* JSON rejects the call with the parser's error
OkBodyWasRead(cs, c, body) ==
    Settled(cs, c, c.status, body, cs.storage,
            IF body.json THEN Resolved(body) ELSE Rejected(JsonSyntaxError))

OkBodyRead(c, body) ==
    /\ c \in InFlight /\ c.pc = "okbody"
    /\ Becomes(OkBodyWasRead(Client, c, body))

(* ---------------------------------------------------------------------- *)
(* Client operations                                                       *)
(* ---------------------------------------------------------------------- *)

Register == Send("register", RegisterEndpoint, "POST")

Login == Send("login", LoginEndpoint, "POST")

Logout == Send("logout", LogoutEndpoint, "POST")

GetProfile == Send("getProfile", ProfileEndpoint, "GET")

CreateJob == Send("createJob", JobsEndpoint, "POST")

GetJobs == Send("getJobs", JobsEndpoint, "GET")

GetJob(jobId) == Send("getJob", JobEndpoint(jobId), "GET")

StartJob(jobId) == Send("startJob", JobEndpoint(jobId) \o <<"/start">>, "POST")

StopJob(jobId) == Send("stopJob", JobEndpoint(jobId) \o <<"/stop">>, "POST")

PauseJob(jobId) == Send("pauseJob", JobEndpoint(jobId) \o <<"/pause">>, "POST")

DeleteJob(jobId) == Send("deleteJob", JobEndpoint(jobId), "DELETE")

GetJobResults(jobId, limit) ==
    Send("getJobResults", JobResultsEndpoint(jobId, limit), "GET")

GetJobStats(jobId) == Send("getJobStats", JobEndpoint(jobId) \o <<"/stats">>, "GET")

GetStatus == Send("getStatus", StatusEndpoint, "GET")

GetHealth == Send("getHealth", HealthEndpoint, "GET")

\* loginWithToken: stores the pair, no request
LoginWithToken(token, user) ==
    /\ storage' = StoreSession(storage, token, Some(user))
    /\ event' = [NoEvent EXCEPT !.kind = "stored", !.op = "loginWithToken"]
    /\ UNCHANGED <<calls, view, tasks>>

\* validateToken: a profile fetch whose outcome it turns into a boolean
ValidateToken == Send("validateToken", ProfileEndpoint, "GET")

\* initializeAuth: validates the token if one is cached, else answers false
InitializeAuth ==
    IF isAuthenticated(storage)
    THEN Send("initializeAuth", ProfileEndpoint, "GET")
    ELSE /\ event' = [NoEvent EXCEPT !.kind = "settled", !.op = "initializeAuth",
                                     !.settled = "resolved", !.ret = "false"]
         /\ UNCHANGED <<storage, calls, view, tasks>>

(* ---------------------------------------------------------------------- *)
(* Views: handlers                                                         *)
(* ---------------------------------------------------------------------- *)

\* the application during a turn: the client, what is displayed, the handler
\* tasks waiting for calls, and what the turn has done so far
Turn(cs, v, ts, kind) ==
    [client |-> cs, view |-> v, tasks |-> ts, kind |-> kind, sent |-> <<>>,
     navigated |-> <<>>, toast |-> NoToast]

\* a turn the user starts
World == Turn(Client, view, tasks, "user")

\* a handler suspended at an await: the calls it waits for, whether the
\* component that started it is still mounted, whether its join has
\* rejected already, and the responses it has so far
Task(kind, live, waiting, arg) ==
    [kind |-> kind, live |-> live, waiting |-> waiting, failed |-> FALSE,
     got |-> {}, arg |-> arg]

\* toast({title, variant})
Toast(w, title, variant) ==
    [w EXCEPT !.toast = [title |-> title, variant |-> variant]]

\* a client operation called from a view; the event of a turn in which a
\* call settled stays that call's
ViewSend(w, op, endpoint, method) ==
    [w EXCEPT !.client = IF w.kind = "user"
                         THEN Sent(@, op, endpoint, method)
                         ELSE [Sent(@, op, endpoint, method) EXCEPT !.event = w.client.event],
              !.sent = Append(@, op)]

\* task t waits on
Suspend(w, t) == [w EXCEPT !.tasks = @ (+) SetToBag({t})]

\* Dashboard.loadData up to its await: both requests leave in the same turn
DashboardLoadData(w, live) ==
    Suspend(ViewSend(ViewSend(w, "getProfile", ProfileEndpoint, "GET"),
                     "getJobs", JobsEndpoint, "GET"),
            Task("Dashboard.loadData", live, {"getProfile", "getJobs"}, ""))

\* JobResults.loadData up to its await
JobResultsLoadData(w, live, jobId) ==
    Suspend(ViewSend(ViewSend(w, "getJob", JobEndpoint(jobId), "GET"),
                     "getJobResults", JobResultsEndpoint(jobId, Some(50)), "GET"),
            Task("JobResults.loadData", live, {"getJob", "getJobResults"}, ""))

\* the router replaces the mounted component by the one of the element and
\* the new component's mount effect runs; the state of the component that
\* was mounted is gone, and no state update of a task it started reaches
\* the screen
MountPage(w, element) ==
    LET Stale(ts) ==
            LET S == BagToSet(ts)
                T == {[t EXCEPT !.live = FALSE] : t \in S}
                Copies(t) == IF t \in S THEN ts[t] ELSE 0
            IN IF S = {} THEN EmptyBag
               ELSE [u \in T |-> Copies(u) + Copies([u EXCEPT !.live = TRUE])]
        w1 == [w EXCEPT
                 !.view.page = element.page,
                 !.view.jobId = element.jobId,
                 !.view.auth = InitialAuth,
                 !.view.newJob = InitialNewJob,
                 !.view.dashboard = InitialDashboard,
                 !.view.jobResults = InitialJobResults,
                 !.tasks = Stale(@)]
    IN CASE element.page = "dashboard" -> DashboardLoadData(w1, TRUE)
         [] element.page = "results" ->
                JobResultsLoadData(w1, TRUE, element.jobId[1])
         [] OTHER -> w1

\* navigate(path): the route table is rendered for the new location; a
\* component that stays in place keeps its state, and the results view
\* loads again when its job id changed; a location that redirects renders
\* the redirect in between, so the component it ends at is mounted anew
navigate(w, path) ==
    LET element == Resolve(path, w.client.storage)
        redirected == Routes(path, w.client.storage).redirect
        w1 == [w EXCEPT !.navigated = path]
    IN IF ~redirected /\ element.page = w.view.page /\ element.jobId = w.view.jobId
       THEN w1
       ELSE IF element.page = "results" /\ w.view.page = "results"
       THEN JobResultsLoadData([w1 EXCEPT !.view.jobId = element.jobId],
                               TRUE, element.jobId[1])
       ELSE MountPage(w1, element)

\* the response task t got from operation op
Response(got, op) == (CHOOSE p \in got : p[1] = op)[2]

\* a mutant of DashboardLoaded that takes the data whatever success says
DashboardLoaded_IgnoresSuccess(w, t, got) ==
    IF t.live
    THEN [w EXCEPT !.view.dashboard.user = Response(got, "getProfile").user,
                   !.view.dashboard.jobs = Response(got, "getJobs").jobs,
                   !.view.dashboard.isLoading = FALSE]
    ELSE w

\* Dashboard.loadData after both calls resolved
DashboardLoaded(w, t, got) ==
    LET profileResponse == Response(got, "getProfile")
        jobsResponse == Response(got, "getJobs")
    IN IF t.live
       THEN [w EXCEPT
               !.view.dashboard.user =
                   IF profileResponse.success THEN profileResponse.user ELSE @,
               !.view.dashboard.jobs =
                   IF jobsResponse.success THEN jobsResponse.jobs ELSE @,
               !.view.dashboard.isLoading = FALSE]
       ELSE w

\* a mutant of DashboardLoadFailed that stays on the dashboard
DashboardLoadFailed_Stays(w, t) ==
    LET w1 == Toast(w, "Error", "destructive") IN
    IF t.live THEN [w1 EXCEPT !.view.dashboard.isLoading = FALSE] ELSE w1

\* Dashboard.loadData after one of its calls rejected: catch, then finally
DashboardLoadFailed(w, t) ==
    LET w1 == navigate(Toast(w, "Error", "destructive"), AuthPath) IN
    IF t.live THEN [w1 EXCEPT !.view.dashboard.isLoading = FALSE] ELSE w1

\* JobResults.loadData after both calls resolved
JobResultsLoaded(w, t, got) ==
    LET jobResponse == Response(got, "getJob")
        resultsResponse == Response(got, "getJobResults")
    IN IF t.live
       THEN [w EXCEPT
               !.view.jobResults.job =
                   IF jobResponse.success THEN jobResponse.job ELSE @,
               !.view.jobResults.results =
                   IF resultsResponse.success THEN resultsResponse.results ELSE @,
               !.view.jobResults.isLoading = FALSE]
       ELSE w

\* a mutant of JobResultsLoadFailed that goes to the login view
JobResultsLoadFailed_ToAuth(w, t) ==
    LET w1 == navigate(Toast(w, "Error", "destructive"), AuthPath) IN
    IF t.live THEN [w1 EXCEPT !.view.jobResults.isLoading = FALSE] ELSE w1

\* JobResults.loadData after one of its calls rejected: catch, then finally
JobResultsLoadFailed(w, t) ==
    LET w1 == navigate(Toast(w, "Error", "destructive"), DashboardPath) IN
    IF t.live THEN [w1 EXCEPT !.view.jobResults.isLoading = FALSE] ELSE w1

\* one call of a loadData's Promise.all settled: the join rejects with the
\* first rejection and resolves when both calls have resolved; what settles
\* after a rejection is ignored
PromiseAll(w, t) ==
    LET ev == w.client.event
        left == t.waiting \ {ev.op}
        Resume(w1, t1) == IF t1.waiting = {} THEN w1 ELSE Suspend(w1, t1)
    IN IF t.failed
       THEN Resume(w, [t EXCEPT !.waiting = left])
       ELSE IF ev.settled = "rejected"
       THEN Resume(IF t.kind = "Dashboard.loadData"
                   THEN DashboardLoadFailed(w, t) ELSE JobResultsLoadFailed(w, t),
                   [t EXCEPT !.waiting = left, !.failed = TRUE,
                             !.live = FALSE, !.got = {}])
       ELSE LET got == t.got \cup {<<ev.op, ev.body>>} IN
            IF left # {}
            THEN Suspend(w, [t EXCEPT !.waiting = left, !.got = got])
            ELSE IF t.kind = "Dashboard.loadData"
            THEN DashboardLoaded(w, t, got) ELSE JobResultsLoaded(w, t, got)

\* the client call handleJobAction makes for an action
JobActionCall(action, jobId) ==
    CASE action = "start" ->
             [op |-> "startJob", endpoint |-> JobEndpoint(jobId) \o <<"/start">>,
              method |-> "POST"]
      [] action = "pause" ->
             [op |-> "pauseJob", endpoint |-> JobEndpoint(jobId) \o <<"/pause">>,
              method |-> "POST"]
      [] action = "stop" ->
             [op |-> "stopJob", endpoint |-> JobEndpoint(jobId) \o <<"/stop">>,
              method |-> "POST"]
      [] action = "delete" ->
             [op |-> "deleteJob", endpoint |-> JobEndpoint(jobId), method |-> "DELETE"]

\* a mutant of JobActionSettled that reloads and leaves after a failure
JobActionSettled_ReloadsOnFailure(w, t) ==
    LET ev == w.client.event IN
    IF ev.settled = "resolved"
    THEN IF ev.body.success
         THEN DashboardLoadData(Toast(w, "Success", "default"), t.live)
         ELSE w
    ELSE DashboardLoadData(navigate(Toast(w, "Error", "destructive"), AuthPath),
                           t.live)

\* Dashboard.handleJobAction after its call settled
JobActionSettled(w, t) ==
    LET ev == w.client.event IN
    IF ev.settled = "resolved"
    THEN IF ev.body.success
         THEN DashboardLoadData(Toast(w, "Success", "default"), t.live)
         ELSE w
    ELSE Toast(w, "Error", "destructive")

\* Auth.handleAuth after login() or register() settled
AuthSettled(w, t) ==
    LET ev == w.client.event
        w1 == IF ev.settled = "resolved"
              THEN IF ev.body.success
                   THEN navigate(Toast(w, "Success!", "default"), DashboardPath)
                   ELSE w
              ELSE Toast(w, "Error", "destructive")
    IN IF t.live THEN [w1 EXCEPT !.view.auth.isLoading = FALSE] ELSE w1

\* a mutant of CreateJobSettled that submits again after a failure
CreateJobSettled_Retries(w, t) ==
    LET ev == w.client.event IN
    IF ev.settled = "resolved"
    THEN IF ev.body.success
         THEN navigate(Toast(w, "Job Created!", "default"), DashboardPath)
         ELSE IF t.live THEN [w EXCEPT !.view.newJob.isLoading = FALSE] ELSE w
    ELSE Suspend(ViewSend(Toast(w, "Error", "destructive"),
                          "createJob", JobsEndpoint, "POST"), t)

\* NewJob.handleSubmit after createJob() settled
CreateJobSettled(w, t) ==
    LET ev == w.client.event
        w1 == IF ev.settled = "resolved"
              THEN IF ev.body.success
                   THEN navigate(Toast(w, "Job Created!", "default"), DashboardPath)
                   ELSE w
              ELSE Toast(w, "Error", "destructive")
    IN IF t.live THEN [w1 EXCEPT !.view.newJob.isLoading = FALSE] ELSE w1

\* the handler suspended as task t runs on after its call settled;
\* handleLogout goes to /auth whether logout() resolved or rejected
Continue(w, t) ==
    CASE t.kind \in {"Dashboard.loadData", "JobResults.loadData"} -> PromiseAll(w, t)
      [] t.kind = "Dashboard.handleJobAction" -> JobActionSettled(w, t)
      [] t.kind = "Dashboard.handleLogout" -> navigate(w, AuthPath)
      [] t.kind = "Auth.handleAuth" -> AuthSettled(w, t)
      [] t.kind = "NewJob.handleSubmit" -> CreateJobSettled(w, t)

\* the turn leaves the record of what it did; the client's event is the one
\* of this turn, none if no call was sent or settled in it
Did(w, did) ==
    [w EXCEPT !.view.did = [did EXCEPT !.sent = w.sent, !.navigated = w.navigated,
                                       !.toast = w.toast],
              !.client.event = IF w.sent = <<>> /\ did.kind \in {"user", "await"}
                               THEN NoEvent ELSE @]

\* a call of task t settled, leaving the client as cs, and t's handler ran on
Settling(cs, t) ==
    LET w == Turn(cs, view, tasks (-) SetToBag({t}), "settled") IN
    Did(Continue(w, t),
        [NoDid EXCEPT !.kind = IF t.failed THEN "ignored" ELSE "settled",
                      !.handler = t.kind, !.arg = t.arg, !.live = t.live,
                      !.finished = (/\ ~t.failed
                                    /\ \/ cs.event.settled = "rejected"
                                       \/ t.waiting = {cs.event.op})])

WorldBecomes(w) ==
    /\ storage' = w.client.storage
    /\ calls' = w.client.calls
    /\ event' = w.client.event
    /\ view' = w.view
    /\ tasks' = w.tasks

\* the tasks that wait for call c
Waiters(c) == {t \in BagToSet(tasks) : c.op \in t.waiting}

ViewFetchFails(c) ==
    /\ c \in InFlight /\ c.pc = "fetch"
    /\ \E t \in Waiters(c) : WorldBecomes(Settling(FetchFailed(Client, c), t))

ViewFetchResponds(c, status) ==
    /\ c \in InFlight /\ c.pc = "fetch"
    /\ IF status = 401
       THEN \E t \in Waiters(c) :
                WorldBecomes(Settling(FetchResponded(Client, c, status), t))
       ELSE WorldBecomes(Did(Turn(FetchResponded(Client, c, status), view, tasks,
                                  "await"),
                             [NoDid EXCEPT !.kind = "await"]))

ViewErrorBodyRead(c, body) ==
    /\ c \in InFlight /\ c.pc = "errbody"
    /\ \E t \in Waiters(c) : WorldBecomes(Settling(ErrorBodyWasRead(Client, c, body), t))

ViewOkBodyRead(c, body) ==
    /\ c \in InFlight /\ c.pc = "okbody"
    /\ \E t \in Waiters(c) : WorldBecomes(Settling(OkBodyWasRead(Client, c, body), t))

\* a turn started by the user, who starts no request while one is in flight
UserTurn(w, handler, arg) ==
    /\ w.sent = <<>> \/ calls = EmptyBag
    /\ WorldBecomes(Did(w, [NoDid EXCEPT !.kind = "user", !.handler = handler,
                                        !.arg = arg, !.live = TRUE,
                                        !.finished = (w.sent = <<>>)]))

\* the user opens the application at a path: a fresh page, with the store
\* the browser kept
OpenApp(path) ==
    UserTurn(MountPage([Turn([storage |-> storage, calls |-> EmptyBag,
                               event |-> NoEvent],
                              NoView, EmptyBag, "user")
                           EXCEPT !.navigated = path],
                       Resolve(path, storage)),
             "App", "open")

\* a page is on screen with its controls enabled: its component is not
\* loading
Shown(page) ==
    /\ view.page = page
    /\ ~(CASE page = "dashboard" -> view.dashboard.isLoading
            [] page = "results" -> view.jobResults.isLoading
            [] page = "auth" -> view.auth.isLoading
            [] page = "newjob" -> view.newJob.isLoading)

\* the dashboard's New Job buttons
ClickNewJob == Shown("dashboard") /\ UserTurn(navigate(World, NewJobPath), "Dashboard", "new")

\* Dashboard.handleLogout up to its await
HandleLogout ==
    /\ Shown("dashboard")
    /\ UserTurn(Suspend(ViewSend(World, "logout", LogoutEndpoint, "POST"),
                        Task("Dashboard.handleLogout", TRUE, {"logout"}, "")),
                "Dashboard.handleLogout", "")

\* Dashboard.handleJobAction up to its await, from a button the card of the
\* i-th displayed job offers; the user answers the delete confirmation
HandleJobAction(action, i, confirmed) ==
    /\ Shown("dashboard")
    /\ i \in DOMAIN view.dashboard.jobs
    /\ LET job == view.dashboard.jobs[i]
           call == JobActionCall(action, job.job_id)
       IN /\ action \in ActionsOffered(job.status) \cup {"delete"}
          /\ action = "delete" \/ confirmed
          /\ IF action = "delete" /\ ~confirmed
             THEN UserTurn(World, "Dashboard.handleJobAction", "declined")
             ELSE UserTurn(Suspend(ViewSend(World, call.op, call.endpoint, call.method),
                                   Task("Dashboard.handleJobAction", TRUE, {call.op},
                                        action)),
                           "Dashboard.handleJobAction", action)

\* Dashboard.handleViewResults, from the enabled Results button of a card
HandleViewResults(i) ==
    /\ Shown("dashboard")
    /\ i \in DOMAIN view.dashboard.jobs
    /\ view.dashboard.jobs[i].changes_detected # 0
    /\ UserTurn(navigate(World, ResultsPath(view.dashboard.jobs[i].job_id)),
                "Dashboard.handleViewResults", "")

\* the buttons of the new-job form and of the results view that lead back
GoToDashboard ==
    /\ \/ view.page = "newjob"
       \/ Shown("results")
    /\ UserTurn(navigate(World, DashboardPath), "back", "")

(* ---------------------------------------------------------------------- *)
(* Specifications                                                          *)
(* ---------------------------------------------------------------------- *)

\* every operation that makes a request
StartCall ==
    \/ Register \/ Login \/ Logout \/ GetProfile \/ CreateJob \/ GetJobs
    \/ \E jobId \in JobIds : GetJob(jobId)
    \/ \E jobId \in JobIds : StartJob(jobId)
    \/ \E jobId \in JobIds : StopJob(jobId)
    \/ \E jobId \in JobIds : PauseJob(jobId)
    \/ \E jobId \in JobIds : DeleteJob(jobId)
    \/ \E jobId \in JobIds, limit \in Limits : GetJobResults(jobId, limit)
    \/ \E jobId \in JobIds : GetJobStats(jobId)
    \/ GetStatus \/ GetHealth \/ ValidateToken \/ InitializeAuth

\* SeqSpec: the client used one call at a time (each call is awaited before
\* the next is made), with every operation, every job id and every response
\* the backend may give
SeqNext ==
    \/ Room(1) /\ StartCall
    \/ \E token \in Tokens, user \in Users : LoginWithToken(token, user)
    \/ \E c \in InFlight : FetchFails(c)
    \/ \E c \in InFlight, status \in Statuses : FetchResponds(c, status)
    \/ \E c \in InFlight, body \in ErrorBodies : ErrorBodyRead(c, body)
    \/ \E c \in InFlight, body \in OkBodies : OkBodyRead(c, body)

SeqSpec == Init /\ [][SeqNext]_vars

\* the session operations, which are the ones that touch the store
SessionCall ==
    \/ Register \/ Login \/ Logout \/ GetProfile \/ ValidateToken \/ InitializeAuth

SessionStatuses == {200, 401, 500}

SessionOkBodies ==
    { Body(TRUE, TRUE, Some(<<"tok123">>), Some(U1), None, None),
      Body(TRUE, TRUE, Some(<<"tok456">>), Some(U2), None, None),
      Body(TRUE, TRUE, Some(EmptyString), Some(U1), None, None),
      Body(TRUE, TRUE, Some(<<"tok123">>), None, None, None),
      Body(TRUE, FALSE, None, None, None, Some(<<"failed">>)),
      NoBody }

SessionErrorBodies ==
    { NoBody,
      Body(TRUE, FALSE, None, None, Some(<<"invalid credentials">>), None) }

\* Spec: up to MaxCalls calls wait for the network at once and their
\* responses arrive in any order
Next ==
    \/ Room(MaxCalls) /\ SessionCall
    \/ \E token \in Tokens, user \in Users : LoginWithToken(token, user)
    \/ \E c \in InFlight : FetchFails(c)
    \/ \E c \in InFlight, status \in SessionStatuses : FetchResponds(c, status)
    \/ \E c \in InFlight, body \in SessionErrorBodies : ErrorBodyRead(c, body)
    \/ \E c \in InFlight, body \in SessionOkBodies : OkBodyRead(c, body)

Spec == Init /\ [][Next]_vars

\* RaceSpec: profile fetches are made while no token or the token tok123 is
\* cached, and logins, which the backend answers with the token tok456, are
\* under way at the same time; so no profile fetch was sent with tok456
RaceNext ==
    \/ /\ ~isAuthenticated(storage) /\ calls = EmptyBag
       /\ LoginWithToken(<<"tok123">>, U1)
    \/ /\ Room(MaxCalls) /\ getStoredToken(storage) # Some(<<"tok456">>)
       /\ GetProfile
    \/ Room(MaxCalls) /\ Login
    \/ \E c \in InFlight : FetchFails(c)
    \/ \E c \in InFlight, status \in SessionStatuses : FetchResponds(c, status)
    \/ \E c \in InFlight : ErrorBodyRead(c, NoBody)
    \/ \E c \in InFlight :
           OkBodyRead(c, Body(TRUE, TRUE, Some(<<"tok456">>), Some(U2), None, None))

RaceSpec == Init /\ [][RaceNext]_vars

\* LogoutRaceSpec: logout is called while no token or the token tok123 is
\* cached; login, which the backend answers with the token tok456, is
\* called only while a logout is under way and no other login is
LogoutRaceNext ==
    \/ /\ ~isAuthenticated(storage) /\ calls = EmptyBag
       /\ LoginWithToken(<<"tok123">>, U1)
    \/ /\ Room(MaxCalls) /\ getStoredToken(storage) # Some(<<"tok456">>)
       /\ Logout
    \/ /\ Room(MaxCalls)
       /\ \E c \in InFlight : c.op = "logout"
       /\ \A c \in InFlight : c.op # "login"
       /\ Login
    \/ \E c \in InFlight : FetchFails(c)
    \/ \E c \in InFlight, status \in SessionStatuses : FetchResponds(c, status)
    \/ \E c \in InFlight : ErrorBodyRead(c, NoBody)
    \/ \E c \in InFlight :
           OkBodyRead(c, Body(TRUE, TRUE, Some(<<"tok456">>), Some(U2), None, None))

LogoutRaceSpec == Init /\ [][LogoutRaceNext]_vars

\* the toggle between signing in and signing up
OnToggleMode ==
    /\ Shown("auth")
    /\ UserTurn([World EXCEPT !.view.auth.mode =
                                  IF @ = "login" THEN "register" ELSE "login"],
                "Auth.onToggleMode", "")

\* the onChange of the email or the password field
AuthFormOnChange(field, value) ==
    /\ Shown("auth")
    /\ UserTurn([World EXCEPT !.view.auth[field] = value,
                              !.view.auth.errors[field] = ""],
                "AuthForm.onChange", field)

\* AuthForm.handleSubmit, and Auth.handleAuth up to its await
AuthFormHandleSubmit ==
    /\ Shown("auth")
    /\ LET errors == AuthFormValidateForm(view.auth.email, view.auth.password)
           validated == [World EXCEPT !.view.auth.errors = errors]
           op == IF view.auth.mode = "login" THEN "login" ELSE "register"
           endpoint == IF view.auth.mode = "login" THEN LoginEndpoint
                       ELSE RegisterEndpoint
       IN IF errors # NoErrors
          THEN UserTurn(validated, "AuthForm.handleSubmit", "rejected")
          ELSE UserTurn(Suspend(ViewSend([validated EXCEPT !.view.auth.isLoading = TRUE],
                                         op, endpoint, "POST"),
                                Task("Auth.handleAuth", TRUE, {op}, view.auth.mode)),
                        "AuthForm.handleSubmit", "accepted")

\* NewJob.handleInputChange(field, value) from the name or the URL field
HandleInputChange(field, value) ==
    /\ Shown("newjob")
    /\ UserTurn([World EXCEPT !.view.newJob[field] = value,
                              !.view.newJob.errors[field] = ""],
                "NewJob.handleInputChange", field)

\* the interval field's onChange: the typed text goes through parseInt
TypeInterval(text) ==
    /\ Shown("newjob")
    /\ UserTurn([World EXCEPT
                    !.view.newJob.check_interval_minutes = IntervalTyped(text),
                    !.view.newJob.typed = Some(text),
                    !.view.newJob.errors.check_interval_minutes = ""],
                "NewJob.handleInputChange", "check_interval_minutes")

\* NewJob.handleSubmit up to its await
NewJobHandleSubmit ==
    /\ Shown("newjob")
    /\ LET errors == NewJobValidateForm(view.newJob)
           validated == [World EXCEPT !.view.newJob.errors = errors]
       IN IF errors # NoErrors
          THEN UserTurn(validated, "NewJob.handleSubmit", "rejected")
          ELSE UserTurn(Suspend(ViewSend([validated EXCEPT !.view.newJob.isLoading = TRUE],
                                         "createJob", JobsEndpoint, "POST"),
                                Task("NewJob.handleSubmit", TRUE, {"createJob"}, "")),
                        "NewJob.handleSubmit", "accepted")

(* ---------------------------------------------------------------------- *)
(* The application: views over the client                                  *)
(* ---------------------------------------------------------------------- *)

Paths ==
    {RootPath, AuthPath, DashboardPath, NewJobPath, ResultsPath(<<"j1">>),
     <<"/nowhere">>}

\* what a user types into the fields of the two forms
Typed ==
    [email |-> {EmptyString, <<"a", "@", "b">>, <<"a", "@", "b", ".", "c">>,
                <<"x", " ", "a", "@", "b", ".", "c">>},
     password |-> {EmptyString, <<"s", "e", "c", "r", "e">>,
                   <<"s", "e", "c", "r", "e", "t">>},
     name |-> {EmptyString, <<" ">>, <<"J">>},
     url |-> {EmptyString, <<" ">>, <<"example.com">>,
              <<"https:", "//", "example.com">>},
     check_interval_minutes |->
         {EmptyString, <<"0">>, <<"1">>, <<"1", "4", "4", "0">>,
          <<"1", "4", "4", "1">>, <<"-", "5">>}]

\* input that passes the validation of its field
Valid ==
    [email |-> <<"a", "@", "b", ".", "c">>,
     password |-> <<"s", "e", "c", "r", "e", "t">>,
     name |-> <<"J">>,
     url |-> <<"https:", "//", "example.com">>]

SignedIn ==
    WithPayload(Body(TRUE, TRUE, Some(<<"tok123">>), Some(U1), None, None),
                <<Job(<<"j1">>, "running", 0)>>,
                Some(Job(<<"j1">>, "running", 0)), <<>>)

ViewOkBodies ==
    { SignedIn,
      WithPayload(Body(TRUE, TRUE, Some(<<"tok456">>), Some(U2), None, None),
                  <<Job(<<"j1">>, "paused", 2)>>,
                  Some(Job(<<"j1">>, "paused", 2)),
                  <<JobResult("text_change", <<"2024-01-01", "T23:30", "Z">>)>>),
      WithPayload(Body(TRUE, FALSE, None, None, None, Some(<<"failed">>)),
                  <<Job(<<"j1">>, "paused", 2)>>,
                  Some(Job(<<"j1">>, "paused", 2)),
                  <<JobResult("text_change", <<"2024-01-01", "T23:30", "Z">>)>>),
      NoBody }

\* ViewSpec: a user works the application, filling the forms with valid
\* input and starting nothing that calls the client while a call waits;
\* the responses of the calls a turn made arrive in any order
ViewNext ==
    \/ \E path \in Paths : OpenApp(path)
    \/ ClickNewJob
    \/ HandleLogout
    \/ \E action \in {"start", "pause", "stop", "delete"}, i \in 1..1,
          confirmed \in BOOLEAN :
           HandleJobAction(action, i, confirmed)
    \/ \E i \in 1..1 : HandleViewResults(i)
    \/ GoToDashboard
    \/ OnToggleMode
    \/ \E field \in {"email", "password"} : AuthFormOnChange(field, Valid[field])
    \/ AuthFormHandleSubmit
    \/ \E field \in {"name", "url"} : HandleInputChange(field, Valid[field])
    \/ NewJobHandleSubmit
    \/ \E c \in InFlight : ViewFetchFails(c)
    \/ \E c \in InFlight, status \in SessionStatuses : ViewFetchResponds(c, status)
    \/ \E c \in InFlight : ViewErrorBodyRead(c, NoBody)
    \/ \E c \in InFlight, body \in ViewOkBodies : ViewOkBodyRead(c, body)

ViewSpec == Init /\ [][ViewNext]_vars

\* FormSpec: a user signs in and fills the forms with any input, against a
\* backend that answers every request with success
FormNext ==
    \/ OpenApp(AuthPath)
    \/ OnToggleMode
    \/ \E field \in {"email", "password"} : \E value \in Typed[field] :
           AuthFormOnChange(field, value)
    \/ AuthFormHandleSubmit
    \/ ClickNewJob
    \/ \E field \in {"name", "url"} : \E value \in Typed[field] :
           HandleInputChange(field, value)
    \/ \E text \in Typed.check_interval_minutes : TypeInterval(text)
    \/ NewJobHandleSubmit
    \/ \E c \in InFlight : ViewFetchResponds(c, 200)
    \/ \E c \in InFlight : ViewOkBodyRead(c, SignedIn)

FormSpec == Init /\ [][FormNext]_vars

\* the longest list of results a response carries
MaxResults == 3

\* the results a backend may report: of the type shown first and of another
\* type, at three timestamps of which the one written latest is the earliest
ResultLists ==
    LET Stamps == {<<"2024-01-01", "T23:30", "Z">>,
                   <<"2024-01-02", "T00:30", "+02:00">>,
                   <<"2024-01-02", "T00:30", "Z">>}
        Results == {JobResult(type, stamp) :
                        type \in {"new_portfolio_companies", "text_change"},
                        stamp \in Stamps}
    IN UNION {[1..n -> Results] : n \in 0..MaxResults}

\* ResultsSpec: a signed-in user opens the results of a job, and the backend
\* answers with any list of results
ResultsNext ==
    \/ LoginWithToken(<<"tok123">>, U1)
    \/ OpenApp(ResultsPath(<<"j1">>))
    \/ \E c \in InFlight : ViewFetchResponds(c, 200)
    \/ \E c \in InFlight, results \in ResultLists :
           ViewOkBodyRead(c, WithPayload(Body(TRUE, TRUE, None, None, None, None),
                                         <<>>, Some(Job(<<"j1">>, "running", 2)),
                                         IF c.op = "getJobResults" THEN results
                                         ELSE <<>>))

ResultsSpec == Init /\ [][ResultsNext]_vars

\* CardSpec: a signed-in user works the card of one job, which the backend
\* reports in any status (one of them unknown to the card) and with or
\* without changes detected
CardNext ==
    \/ LoginWithToken(<<"tok123">>, U1)
    \/ OpenApp(DashboardPath)
    \/ \E action \in {"start", "pause", "stop", "delete"}, confirmed \in BOOLEAN :
           HandleJobAction(action, 1, confirmed)
    \/ HandleViewResults(1)
    \/ \E c \in InFlight : ViewFetchResponds(c, 200)
    \/ \E c \in InFlight, changes \in {0, 2},
          status \in {"created", "running", "paused", "stopped", "error",
                      "archived"} :
           ViewOkBodyRead(c, WithPayload(Body(TRUE, TRUE, None, Some(U1), None, None),
                                         <<Job(<<"j1">>, status, changes)>>,
                                         Some(Job(<<"j1">>, status, changes)),
                                         <<>>))

CardSpec == Init /\ [][CardNext]_vars

\* AuthSpec: a user signs in or signs up at /auth with valid input, and the
\* backend answers with a response of any shape: success with a token, with
\* an empty token, with none, success false, not JSON, or an error status
AuthNext ==
    \/ OpenApp(AuthPath)
    \/ OnToggleMode
    \/ \E field \in {"email", "password"} : AuthFormOnChange(field, Valid[field])
    \/ AuthFormHandleSubmit
    \/ \E c \in InFlight : ViewFetchFails(c)
    \/ \E c \in InFlight, status \in SessionStatuses : ViewFetchResponds(c, status)
    \/ \E c \in InFlight : ViewErrorBodyRead(c, NoBody)
    \/ \E c \in InFlight,
          body \in SessionOkBodies
                   \cup {Body(TRUE, TRUE, None, Some(U1), None, None)} :
           ViewOkBodyRead(c, WithPayload(body, <<>>, None, <<>>))

AuthSpec == Init /\ [][AuthNext]_vars

\* a turn in which a call moves on: fetch settled, or a body was read
NetworkTurn ==
    \/ \E c \in InFlight : ViewFetchFails(c)
    \/ \E c \in InFlight, status \in SessionStatuses : ViewFetchResponds(c, status)
    \/ \E c \in InFlight : ViewErrorBodyRead(c, NoBody)
    \/ \E c \in InFlight, body \in ViewOkBodies : ViewOkBodyRead(c, body)

\* LogoutSpec: a user signs in, moves between the dashboard and the new-job
\* form and signs out; every fetch settles in the end and the event loop
\* runs the code that waits for it
LogoutNext ==
    \/ \E path \in {AuthPath, DashboardPath} : OpenApp(path)
    \/ \E field \in {"email", "password"} : AuthFormOnChange(field, Valid[field])
    \/ AuthFormHandleSubmit
    \/ ClickNewJob
    \/ GoToDashboard
    \/ HandleLogout
    \/ NetworkTurn

LogoutSpec == Init /\ [][LogoutNext]_vars /\ WF_vars(NetworkTurn)

(* ---------------------------------------------------------------------- *)
(* Kinds of step                                                           *)
(* ---------------------------------------------------------------------- *)

\* a step in which an operation hands a request to fetch
SendStep == BagCardinality(calls') > BagCardinality(calls)

\* a step in which a call settles towards its caller
SettleStep == BagCardinality(calls') < BagCardinality(calls)

\* a step of loginWithToken
StoreStep == calls' = calls /\ event'.kind = "stored"

HasToken(st) == "auth_token" \in DOMAIN st

HasUser(st) == "user" \in DOMAIN st

(* ---------------------------------------------------------------------- *)
(* C1                                                                      *)
(* ---------------------------------------------------------------------- *)

\* C1: every request other than login and register that is sent while a
\* token is cached carries Authorization: Bearer <that token>, for every
\* cached token value
C1_BearerForEveryCachedToken ==
    [][(/\ SendStep
        /\ event'.op \notin {"login", "register"}
        /\ HasToken(storage))
       => event'.authorization = Some(<<"Bearer ">> \o storage["auth_token"])]_vars

(* ---------------------------------------------------------------------- *)
(* C2                                                                      *)
(* ---------------------------------------------------------------------- *)

\* C2: a step that handles a 401 response, for whatever operation, leaves
\* neither the token nor the user in the store
C2_Status401ClearsSession ==
    [][(SettleStep /\ event'.status = 401)
       => (~HasToken(storage') /\ ~HasUser(storage'))]_vars

\* a job request made with a session cached was answered 401, its caller got
\* the rejection, and the store is empty
C2_Witness ==
    /\ event.kind = "settled" /\ event.op = "startJob" /\ event.status = 401
    /\ event.hadToken /\ event.settled = "rejected"
    /\ storage = NoStorage

(* ---------------------------------------------------------------------- *)
(* C3                                                                      *)
(* ---------------------------------------------------------------------- *)

\* C3: when logout() completes, the token and the user are both absent,
\* whether the backend call succeeded, got an error status or got no response
C3_LogoutClearsSession ==
    [][(SettleStep /\ event'.op = "logout")
       => (~HasToken(storage') /\ ~HasUser(storage'))]_vars

\* a logout made with a session cached got no response, and the store is empty
C3_Witness ==
    /\ event.kind = "settled" /\ event.op = "logout" /\ event.hadToken
    /\ event.status = 0 /\ event.request = "rejected"
    /\ event.body = LogoutFailedBody
    /\ storage = NoStorage

(* ---------------------------------------------------------------------- *)
(* C4                                                                      *)
(* ---------------------------------------------------------------------- *)

\* C4: when login or register returns a success response carrying a token T
\* (a non-empty string) and a user, the store holds T and that user, so that
\* isAuthenticated() is true and a profile fetch made next carries
\* Authorization: Bearer T
C4_AuthSuccessPersisted ==
    [][(/\ SettleStep
        /\ event'.op \in {"login", "register"}
        /\ event'.settled = "resolved"
        /\ event'.body.success
        /\ Truthy(event'.body.token)
        /\ event'.body.user # None)
       => (/\ getStoredToken(storage') = event'.body.token
           /\ getItem(storage', "user") = Some(JSONstringify(event'.body.user))
           /\ isAuthenticated(storage')
           /\ AuthorizationHeader(getStoredToken(storage'), ProfileEndpoint)
                = Some(<<"Bearer ">> \o event'.body.token[1]))]_vars

\* register returned success with token tok123 and user u1, and the store
\* holds exactly that pair
C4_Witness ==
    /\ event.kind = "settled" /\ event.op = "register"
    /\ event.settled = "resolved" /\ event.body.success
    /\ event.body.token = Some(<<"tok123">>)
    /\ storage = StoreSession(NoStorage, <<"tok123">>, Some(U1))

(* ---------------------------------------------------------------------- *)
(* C5                                                                      *)
(* ---------------------------------------------------------------------- *)

\* C5: in every reachable state isAuthenticated() is true exactly when the
\* store has a token entry, whatever the entry's value and whatever happened
\* before
C5_AuthenticatedIffTokenPresent == isAuthenticated(storage) <=> HasToken(storage)

\* the empty string is cached as the token
C5_Witness ==
    /\ HasToken(storage) /\ storage["auth_token"] = EmptyString
    /\ isAuthenticated(storage)

(* ---------------------------------------------------------------------- *)
(* C6                                                                      *)
(* ---------------------------------------------------------------------- *)

\* C6: validateToken() sends one profile fetch; it never rejects; it returns
\* true exactly when the fetch succeeded, and then leaves the store as it
\* was; it returns false exactly when the fetch failed, and then leaves
\* neither token nor user
C6_ValidateToken ==
    [][/\ (SendStep /\ event'.op \in {"validateToken", "initializeAuth"})
          => (/\ event'.endpoint = ProfileEndpoint
              /\ event'.method = "GET"
              /\ BagCardinality(calls') = BagCardinality(calls) + 1)
       /\ (SettleStep /\ event'.op \in {"validateToken", "initializeAuth"})
          => (/\ event'.kind = "settled"
              /\ event'.settled = "resolved"
              /\ event'.ret \in {"true", "false"}
              /\ (event'.ret = "true") <=> (event'.request = "resolved")
              /\ (event'.ret = "true") => (storage' = storage)
              /\ (event'.ret = "false")
                 => (~HasToken(storage') /\ ~HasUser(storage')))]_vars

\* validateToken, made with a session cached, got a 500 and answered false
C6_Witness ==
    /\ event.kind = "settled" /\ event.op = "validateToken"
    /\ event.hadToken /\ event.status = 500
    /\ event.ret = "false" /\ storage = NoStorage

(* ---------------------------------------------------------------------- *)
(* C7                                                                      *)
(* ---------------------------------------------------------------------- *)

\* the steps the claim allows to remove a session entry
LogoutOr401Step == SettleStep /\ (event'.op = "logout" \/ event'.status = 401)

\* the steps the claim allows to write the session store: those of the
\* authentication operations (loginWithToken counted among them) and the
\* handling of a 401
AuthOr401Step ==
    \/ SettleStep /\ (event'.op \in {"login", "register", "logout"} \/ event'.status = 401)
    \/ StoreStep

\* C7 as stated: only a logout or the handling of a 401 removes the cached
\* token or user, and only the authentication operations and the handling of
\* a 401 write the store
C7_OnlyLogoutOr401Removes ==
    [][/\ ((HasToken(storage) /\ ~HasToken(storage')) \/ (HasUser(storage) /\ ~HasUser(storage')))
          => LogoutOr401Step
       /\ (storage' # storage) => AuthOr401Step]_vars

\* a step in which validateToken (also through initializeAuth) saw its
\* profile fetch fail
ValidateFailedStep ==
    SettleStep /\ event'.op \in {"validateToken", "initializeAuth"} /\ event'.ret = "false"

\* C7, amended: only a logout, the handling of a 401 or a failed
\* validateToken removes the cached token or user; the store is written only
\* by those, by a login or register that succeeded, and by loginWithToken
C7_OnlyClearingPathsRemove ==
    [][/\ ((HasToken(storage) /\ ~HasToken(storage')) \/ (HasUser(storage) /\ ~HasUser(storage')))
          => (LogoutOr401Step \/ ValidateFailedStep)
       /\ (storage' # storage)
          => \/ LogoutOr401Step
             \/ ValidateFailedStep
             \/ (SettleStep /\ event'.op \in {"login", "register"}
                 /\ event'.settled = "resolved" /\ event'.body.success)
             \/ StoreStep]_vars

\* a profile fetch made with a session cached got a 500, and the session is
\* still cached
C7_Witness ==
    /\ event.kind = "settled" /\ event.op = "getProfile"
    /\ event.hadToken /\ event.status = 500 /\ event.settled = "rejected"
    /\ HasToken(storage) /\ HasUser(storage)

(* ---------------------------------------------------------------------- *)
(* C8, C9, C10                                                             *)
(* ---------------------------------------------------------------------- *)

\* a call whose request failed and whose caller received the error
CallerGotError == event.kind = "settled" /\ event.settled = "rejected"

\* the request got a response with a non-success status other than 401
OtherErrorStatus == event.status # 0 /\ event.status # 401 /\ ~Ok(event.status)

\* C8: the error of a failed request tells its cause: it is the
\* authentication failure exactly when the status was 401, a network error
\* exactly when no response arrived, and neither for another error status
C8_ErrorTellsCause ==
    CallerGotError
    => /\ (event.error = AuthFailedMessage) <=> (event.status = 401)
       /\ StartsWith(event.error, NetworkErrorPrefix) <=> (event.status = 0)
       /\ OtherErrorStatus
          => (/\ ~StartsWith(event.error, NetworkErrorPrefix)
              /\ ~Includes(event.error, <<"Authentication failed">>))

\* C9: for a non-success status other than 401 with a body that is not JSON,
\* the caller's error message is exactly HTTP <status>
C9_HttpStatusFallback ==
    (CallerGotError /\ OtherErrorStatus /\ ~event.received.json)
    => event.error = HttpStatusMessage(event.status)

\* C10: for a non-success status other than 401 with a JSON body that has an
\* error field (or, lacking it, a message field), the caller's error message
\* is exactly that field's value
C10_BodyMessage ==
    (CallerGotError /\ OtherErrorStatus /\ event.received.json)
    => /\ Truthy(event.received.error) => event.error = event.received.error[1]
       /\ (~Truthy(event.received.error) /\ Truthy(event.received.message))
          => event.error = event.received.message[1]

(* ---------------------------------------------------------------------- *)
(* C11                                                                     *)
(* ---------------------------------------------------------------------- *)

\* the operations that add a clearing of their own to what request() does
ClearingOps == {"logout", "validateToken", "initializeAuth"}

\* C11: a request that fails for a reason other than a 401 does not touch
\* the store, so the call leaves token and user as they were (logout and
\* validateToken aside, which clear by themselves); a login or register that
\* fails so, or whose response lacks success or a token, writes nothing
C11_FailureWithout401KeepsSession ==
    [][/\ (SettleStep /\ event'.request = "rejected" /\ event'.status # 401)
          => (/\ ~event'.requestWrote
              /\ event'.op \notin ClearingOps => storage' = storage)
       /\ (/\ SettleStep
           /\ event'.op \in {"login", "register"}
           /\ event'.request = "resolved"
           /\ ~(event'.body.success /\ Truthy(event'.body.token)))
          => storage' = storage]_vars

\* a login made with a session cached got a 400 with an error body, and the
\* session is the one cached before
C11_Witness ==
    /\ event.kind = "settled" /\ event.op = "login" /\ event.status = 400
    /\ event.received.error = Some(<<"invalid credentials">>)
    /\ event.settled = "rejected" /\ event.hadToken
    /\ storage = StoreSession(NoStorage, <<"tok456">>, Some(U2))

(* ---------------------------------------------------------------------- *)
(* C12                                                                     *)
(* ---------------------------------------------------------------------- *)

\* C12: a request answered 401 fails with exactly the fixed message (the
\* body is not read), and when the error reaches the caller the store holds
\* neither token nor user
C12_Status401FixedMessage ==
    [][(SettleStep /\ event'.status = 401)
       => (/\ event'.request = "rejected"
           /\ event'.received = NoBody
           /\ event'.op \notin ClearingOps
              => (event'.settled = "rejected" /\ event'.error = AuthFailedMessage)
           /\ ~HasToken(storage') /\ ~HasUser(storage'))]_vars

\* a login made with a session cached was answered 401
C12_Witness ==
    /\ event.kind = "settled" /\ event.op = "login" /\ event.status = 401
    /\ event.hadToken /\ event.requestWrote
    /\ event.error = AuthFailedMessage
    /\ storage = NoStorage


Range(seq) == {seq[i] : i \in DOMAIN seq}

\* a turn in which a call settled towards a view's handler
ViewSettleTurn ==
    /\ view' # view \/ calls' # calls
    /\ view'.did.kind \in {"settled", "ignored"}

\* a turn in which a view's handler got the failure of its request
ViewFailureTurn == ViewSettleTurn /\ event'.request = "rejected"

\* C13: every operation a view calls puts exactly one request in flight, and
\* the turn in which a request failed sends that operation's request no
\* second time: it sends nothing at all, except that a failed results load
\* leads to the dashboard, which loads its own data.
C13_OneRequestPerCall ==
    [][/\ ((view' # view \/ calls' # calls) /\ view'.did.handler # "App")
          => BagCardinality(calls') =
                 BagCardinality(calls) + Len(view'.did.sent)
                 - (IF view'.did.kind \in {"settled", "ignored"} THEN 1 ELSE 0)
       /\ ViewFailureTurn
          => /\ event'.op \notin Range(view'.did.sent)
             /\ view'.did.handler # "JobResults.loadData" => view'.did.sent = <<>>
             /\ view'.did.sent \in {<<>>, <<"getProfile", "getJobs">>}]_vars

C13_Witness ==
    /\ view.did.kind = "settled" /\ view.did.handler = "NewJob.handleSubmit"
    /\ event.op = "createJob" /\ event.request = "rejected" /\ event.status = 500
    /\ view.did.sent = <<>> /\ calls = EmptyBag
    /\ view.page = "newjob"

ProtectedPage(path) ==
    CASE path = DashboardPath -> "dashboard"
      [] path = NewJobPath -> "newjob"
      [] path = ResultsPath(<<"j1">>) -> "results"
      [] path = RootPath -> "dashboard"

\* C14: when a turn went to /, /dashboard, /jobs/new or /jobs/j1/results,
\* then with no token cached the login view is displayed and no protected
\* view was mounted (none of their load requests left), and with a token
\* cached the view of the path is displayed, the dashboard for /.
C14_RouteGuard ==
    view.did.navigated \in {RootPath, DashboardPath, NewJobPath, ResultsPath(<<"j1">>)}
    => IF HasToken(storage)
       THEN view.page = ProtectedPage(view.did.navigated)
       ELSE view.page = "auth" /\ view.did.sent = <<>>

C14_Witness ==
    /\ view.did.navigated = ResultsPath(<<"j1">>) /\ view.did.handler = "App"
    /\ ~HasToken(storage)
    /\ view.page = "auth" /\ calls = EmptyBag


\* a turn in which a load (of the dashboard, of the results view) failed:
\* the first of its two calls to reject
LoadFailureTurn(handler) ==
    /\ ViewFailureTurn
    /\ view'.did.kind = "settled" /\ view'.did.handler = handler

ErrorToast == [title |-> "Error", variant |-> "destructive"]

\* C17: a turn that calls getProfile or getJobs calls both, so both requests
\* wait for their response together. The turn in which the first of the two
\* rejects shows the error notification, goes to /auth and ends on the login
\* view, with user and job list not updated; what the other call answers
\* afterwards changes nothing displayed. Every turn that ends the load of a
\* mounted dashboard leaves isLoading false.
C17_DashboardLoadJoined ==
    [][/\ (view' # view /\ Range(view'.did.sent) \cap {"getProfile", "getJobs"} # {})
          => /\ view'.did.sent = <<"getProfile", "getJobs">>
             /\ {Call("getProfile", "fetch", 0), Call("getJobs", "fetch", 0)}
                    \subseteq BagToSet(calls')
       /\ LoadFailureTurn("Dashboard.loadData")
          => /\ view'.did.toast = ErrorToast
             /\ view'.did.navigated = AuthPath
             /\ view'.page = "auth"
             /\ view'.dashboard.user \in {view.dashboard.user, None}
             /\ view'.dashboard.jobs \in {view.dashboard.jobs, <<>>}
       /\ (ViewSettleTurn /\ view'.did.kind = "ignored")
          => /\ [view' EXCEPT !.did = view.did] = view
             /\ view'.did.toast = NoToast /\ view'.did.navigated = <<>>
             /\ view'.did.sent = <<>>
       /\ (/\ ViewSettleTurn /\ view'.did.handler = "Dashboard.loadData"
           /\ view'.did.finished /\ view'.did.live)
          => ~view'.dashboard.isLoading]_vars

\* getJobs had resolved, then getProfile was answered 500
C17_Witness ==
    /\ view.did.kind = "settled" /\ view.did.handler = "Dashboard.loadData"
    /\ view.did.live /\ view.did.finished
    /\ event.op = "getProfile" /\ event.request = "rejected" /\ event.status = 500
    /\ view.did.toast = ErrorToast /\ view.did.navigated = AuthPath
    /\ view.page = "auth" /\ ~view.dashboard.isLoading
    /\ view.dashboard.jobs = <<>>
    /\ calls = EmptyBag /\ HasToken(storage)

\* C18: the turn in which a job action's call failed shows the error
\* notification, navigates nowhere, sends no request, and leaves the page
\* and the dashboard's state as they were, a 401 included.
C18_JobActionFailure ==
    [][LoadFailureTurn("Dashboard.handleJobAction")
       => /\ view'.did.toast = ErrorToast
          /\ view'.did.navigated = <<>>
          /\ view'.did.sent = <<>>
          /\ [view' EXCEPT !.did = view.did] = view]_vars

C18_Witness ==
    /\ view.did.kind = "settled" /\ view.did.handler = "Dashboard.handleJobAction"
    /\ view.did.arg = "pause" /\ view.did.live
    /\ event.op = "pauseJob" /\ event.status = 401 /\ event.request = "rejected"
    /\ view.did.toast = ErrorToast
    /\ view.page = "dashboard" /\ view.dashboard.jobs = <<Job(<<"j1">>, "running", 0)>>
    /\ ~HasToken(storage) /\ calls = EmptyBag


\* the responses a load has when the call of this turn resolved as its last
Joined(t) == t.got \cup {<<event'.op, event'.body>>}

\* this turn ends a load of a mounted view with both calls resolved
LoadedBy(t, handler) ==
    /\ t \in BagToSet(tasks)
    /\ t.kind = handler /\ t.live /\ ~t.failed /\ t.waiting = {event'.op}
    /\ ViewSettleTurn /\ event'.request = "resolved"
    /\ view'.did.handler = handler

\* a turn of handleJobAction: the click, or the turn after its call settled
JobActionTurn ==
    /\ view' # view \/ calls' # calls
    /\ view'.did.handler = "Dashboard.handleJobAction"

\* C19: the dashboard's job list changes only to the jobs of a getJobs
\* response with success true when a load ends, or to the empty list of a
\* newly mounted view; likewise the results view's job and results. No turn
\* of handleJobAction changes any of them. After a job action answered with
\* success true the turn calls getProfile and getJobs; after one answered
\* with success false, and after a declined delete, it calls nothing and
\* changes nothing displayed.
C19_OnlyFetchedDataDisplayed ==
    [][/\ view'.dashboard.jobs # view.dashboard.jobs
          => \/ view'.dashboard.jobs = <<>> /\ view'.did.navigated # <<>>
             \/ \E t \in BagToSet(tasks) :
                    /\ LoadedBy(t, "Dashboard.loadData")
                    /\ Response(Joined(t), "getJobs").success
                    /\ view'.dashboard.jobs = Response(Joined(t), "getJobs").jobs
       /\ view'.jobResults.job # view.jobResults.job
          => \/ view'.jobResults.job = None /\ view'.did.navigated # <<>>
             \/ \E t \in BagToSet(tasks) :
                    /\ LoadedBy(t, "JobResults.loadData")
                    /\ Response(Joined(t), "getJob").success
                    /\ view'.jobResults.job = Response(Joined(t), "getJob").job
       /\ view'.jobResults.results # view.jobResults.results
          => \/ view'.jobResults.results = <<>> /\ view'.did.navigated # <<>>
             \/ \E t \in BagToSet(tasks) :
                    /\ LoadedBy(t, "JobResults.loadData")
                    /\ Response(Joined(t), "getJobResults").success
                    /\ view'.jobResults.results =
                           Response(Joined(t), "getJobResults").results
       /\ JobActionTurn
          => /\ view'.dashboard = view.dashboard
             /\ view'.jobResults = view.jobResults
             /\ view'.did.kind = "user"
                => IF view'.did.arg = "declined"
                   THEN /\ calls' = calls /\ view'.did.sent = <<>>
                        /\ [view' EXCEPT !.did = view.did] = view
                   ELSE Len(view'.did.sent) = 1
             /\ (view'.did.kind = "settled" /\ event'.request = "resolved")
                => IF event'.body.success
                   THEN view'.did.sent = <<"getProfile", "getJobs">>
                   ELSE /\ view'.did.sent = <<>>
                        /\ view'.did.toast = NoToast
                        /\ [view' EXCEPT !.did = view.did] = view]_vars

\* a stop request was answered with success true and the reload is on its way
C19_Witness ==
    /\ view.did.kind = "settled" /\ view.did.handler = "Dashboard.handleJobAction"
    /\ view.did.arg = "stop" /\ view.did.live
    /\ event.op = "stopJob" /\ event.request = "resolved" /\ event.body.success
    /\ view.did.sent = <<"getProfile", "getJobs">>
    /\ view.page = "dashboard" /\ view.dashboard.jobs = <<Job(<<"j1">>, "paused", 2)>>
    /\ BagToSet(calls) = {Call("getProfile", "fetch", 0), Call("getJobs", "fetch", 0)}

\* C20 as the specification states it: the turn in which a load of the
\* dashboard or of the results view failed shows the error notification and
\* ends on the login view.
C20_LoadFailureEndsAtLogin ==
    [][(\/ LoadFailureTurn("Dashboard.loadData")
        \/ LoadFailureTurn("JobResults.loadData"))
       => /\ view'.did.toast = ErrorToast
          /\ view'.page = "auth"]_vars

\* C20, amended: both failures show the error notification; a failed
\* dashboard load ends on the login view, a failed results load goes to
\* /dashboard, which is the login view only when no token is cached then.
C20_LoadFailureLeavesView ==
    [][/\ LoadFailureTurn("Dashboard.loadData")
          => /\ view'.did.toast = ErrorToast
             /\ view'.did.navigated = AuthPath
             /\ view'.page = "auth"
       /\ LoadFailureTurn("JobResults.loadData")
          => /\ view'.did.toast = ErrorToast
             /\ view'.did.navigated = DashboardPath
             /\ view'.page = IF HasToken(storage') THEN "dashboard" ELSE "auth"]_vars

\* the results load failed with a 500 and the user is on the dashboard
C20_Witness ==
    /\ view.did.kind = "settled" /\ view.did.handler = "JobResults.loadData"
    /\ event.op = "getJob" /\ event.request = "rejected" /\ event.status = 500
    /\ view.did.toast = ErrorToast /\ view.did.navigated = DashboardPath
    /\ view.page = "dashboard" /\ HasToken(storage)
    /\ view.did.sent = <<"getProfile", "getJobs">>


\* a turn of a form's handleSubmit
SubmitTurn(handler) ==
    /\ view' # view \/ calls' # calls
    /\ view'.did.kind = "user" /\ view'.did.handler = handler

NonBlank(text) == \E i \in DOMAIN text : text[i] \notin Whitespace

\* C15: a submit of the new-job form after 0 or 1441 was typed into the
\* interval field is rejected and calls nothing; after 1440 was typed, with
\* a name and a URL that pass, it calls createJob; and createJob is called
\* only with an interval in 1..1440.
C15_IntervalBounds ==
    [][SubmitTurn("NewJob.handleSubmit")
       => /\ view.newJob.typed \in {Some(<<"0">>), Some(<<"1", "4", "4", "1">>)}
             => (view'.did.arg = "rejected" /\ view'.did.sent = <<>>)
          /\ (/\ view.newJob.typed = Some(<<"1", "4", "4", "0">>)
              /\ view.newJob.name = Valid.name /\ view.newJob.url = Valid.url)
             => view'.did.sent = <<"createJob">>
          /\ "createJob" \in Range(view'.did.sent)
             => view'.newJob.check_interval_minutes \in 1..1440]_vars

\* C16: the new-job form calls createJob only with a name that is not blank
\* and a URL that is not blank and parses; the auth form calls login or
\* register only with an email that is not empty and matches the pattern and
\* a password of at least 6 characters. A submit that calls nothing records
\* an error for exactly the fields that fail, and at least one fails.
C16_FormsValidated ==
    [][/\ SubmitTurn("NewJob.handleSubmit")
          => LET f == view.newJob
                 nameOk == NonBlank(f.name)
                 urlOk == NonBlank(f.url) /\ ParsesAsURL(f.url)
                 intervalOk == f.check_interval_minutes \in 1..1440
             IN /\ view'.did.sent \in {<<>>, <<"createJob">>}
                /\ view'.did.sent = <<"createJob">>
                   <=> (nameOk /\ urlOk /\ intervalOk)
                /\ (view'.newJob.errors.name # "") <=> ~nameOk
                /\ (view'.newJob.errors.url # "") <=> ~urlOk
                /\ (view'.newJob.errors.check_interval_minutes # "") <=> ~intervalOk
                /\ [view'.newJob EXCEPT !.errors = f.errors, !.isLoading = f.isLoading]
                       = f
       /\ SubmitTurn("AuthForm.handleSubmit")
          => LET f == view.auth
                 emailOk == f.email # EmptyString /\ MatchesEmailPattern(f.email)
                 passwordOk == Len(f.password) >= 6
             IN /\ view'.did.sent \in {<<>>, <<"login">>, <<"register">>}
                /\ view'.did.sent # <<>> <=> (emailOk /\ passwordOk)
                /\ (view'.auth.errors.email # "") <=> ~emailOk
                /\ (view'.auth.errors.password # "") <=> ~passwordOk]_vars

\* a submit with a blank name, a URL without scheme and 1441 typed
C16_Witness ==
    /\ view.did.kind = "user" /\ view.did.handler = "NewJob.handleSubmit"
    /\ view.did.arg = "rejected" /\ view.did.sent = <<>>
    /\ view.newJob.name = <<" ">> /\ view.newJob.url = <<"example.com">>
    /\ view.newJob.typed = Some(<<"1", "4", "4", "1">>)
    /\ view.newJob.errors.name = "Job name is required"
    /\ view.newJob.errors.url = "Please enter a valid URL"
    /\ view.newJob.errors.check_interval_minutes # ""
    /\ calls = EmptyBag /\ ~view.newJob.isLoading


(* ---------------------------------------------------------------------- *)
(* C21                                                                     *)
(* ---------------------------------------------------------------------- *)

\* the operations whose endpoint is built from a job id
JobIdOps ==
    {"getJob", "startJob", "stopJob", "pauseJob", "deleteJob", "getJobResults",
     "getJobStats"}

\* C21: a request sent while no token is cached carries no Authorization
\* header, and neither does a login or register request; a header is
\* present only if a token is cached and the operation is neither login nor
\* register; and the request of a job operation, for every job id, is
\* treated as a request to a non-login, non-register endpoint: sent while a
\* non-empty token is cached, it carries the header
C21_HeaderOnlyForTokenAndNonAuth ==
    [][SendStep
       => /\ ~HasToken(storage) => event'.authorization = None
          /\ event'.op \in {"login", "register"} => event'.authorization = None
          /\ event'.authorization # None
                 => HasToken(storage) /\ event'.op \notin {"login", "register"}
          /\ (event'.op \in JobIdOps /\ Truthy(getStoredToken(storage)))
                 => event'.authorization
                        = Some(<<"Bearer ">> \o storage["auth_token"])]_vars


(* ---------------------------------------------------------------------- *)
(* C22                                                                     *)
(* ---------------------------------------------------------------------- *)

\* handleLogout waits for logout()
LogoutPending == \E t \in BagToSet(tasks) : t.kind = "Dashboard.handleLogout"

\* C22: a click on logout ends, whatever the backend answers, at the /auth
\* view with neither token nor user cached: logout() resolves, never
\* rejects, the handler navigates to /auth, and that turn comes (unless the
\* user opens the application anew while the request is under way)
C22_LogoutEndsAtAuth ==
    /\ [][(LogoutPending /\ ~LogoutPending')
          => \/ view'.did.handler = "App"
             \/ /\ event'.kind = "settled" /\ event'.op = "logout"
                /\ event'.settled = "resolved"
                /\ view'.did.navigated = AuthPath
                /\ view'.page = "auth"
                /\ ~HasToken(storage') /\ ~HasUser(storage')]_vars
    /\ LogoutPending ~> ~LogoutPending

\* the logout request failed with status 500 and the user is at /auth,
\* signed out
C22_Witness ==
    /\ view.did.kind = "settled" /\ view.did.handler = "Dashboard.handleLogout"
    /\ event.op = "logout" /\ event.status = 500 /\ event.request = "rejected"
    /\ event.settled = "resolved" /\ event.body = LogoutFailedBody
    /\ view.page = "auth" /\ storage = NoStorage


(* ---------------------------------------------------------------------- *)
(* C23                                                                     *)
(* ---------------------------------------------------------------------- *)

\* the results view is on screen with its list
ResultsShown == view.page = "results" /\ ~view.jobResults.isLoading

\* how many times x occurs in list
Occurrences(list, x) == Cardinality({i \in DOMAIN list : list[i] = x})

\* C23: the list the results view displays is a permutation of the fetched
\* results; in it every result of type new_portfolio_companies precedes
\* every result of another type, and within each of the two groups the
\* results are in non-increasing order of their time of detection; the
\* fetched list itself, kept by the view, is in the order of the response
C23_ResultsSorted ==
    /\ [][(/\ ViewSettleTurn /\ view'.did.handler = "JobResults.loadData"
           /\ view'.did.live /\ view'.did.finished
           /\ event'.op = "getJobResults" /\ event'.settled = "resolved"
           /\ event'.body.success)
          => view'.jobResults.results = event'.body.results]_vars
    /\ [](ResultsShown
          => LET results == view.jobResults.results
                 shown == sortedResults(results)
                 First(r) == r.type = "new_portfolio_companies"
             IN /\ Len(shown) = Len(results)
                /\ \A x \in Range(results) :
                       Occurrences(shown, x) = Occurrences(results, x)
                /\ \A i, j \in DOMAIN shown :
                       i < j => /\ First(shown[j]) => First(shown[i])
                                /\ First(shown[i]) = First(shown[j])
                                   => DateGetTime(shown[i].detected_at)
                                          >= DateGetTime(shown[j].detected_at))

\* three results were fetched, the oldest first and one of the type shown
\* first last, and the view shows them in another order
C23_Witness ==
    /\ ResultsShown
    /\ Len(view.jobResults.results) = 3
    /\ view.jobResults.results[3].type = "new_portfolio_companies"
    /\ view.jobResults.results[1].type = "text_change"
    /\ view.jobResults.results[2].type = "text_change"
    /\ DateGetTime(view.jobResults.results[1].detected_at)
           < DateGetTime(view.jobResults.results[2].detected_at)
    /\ view.jobResults.results[1].detected_at[1] = "2024-01-02"
    /\ sortedResults(view.jobResults.results)
           = <<view.jobResults.results[3], view.jobResults.results[2],
               view.jobResults.results[1]>>


(* ---------------------------------------------------------------------- *)
(* C24                                                                     *)
(* ---------------------------------------------------------------------- *)

\* the dashboard shows the card of a job and no call is under way
CardReady ==
    /\ view.page = "dashboard" /\ ~view.dashboard.isLoading
    /\ Len(view.dashboard.jobs) = 1
    /\ calls = EmptyBag

\* C24: the card of a displayed job lets the user start it exactly if its
\* status is created, stopped, paused or error, pause it exactly if it is
\* running, stop it exactly if it is running or paused, and delete it in
\* every status; the Results button acts exactly if changes_detected is not
\* 0; and each request a click sends is the one of the button, so that no
\* pause request is sent for a job displayed as not running
C24_CardOffers ==
    /\ [](CardReady
          => LET job == view.dashboard.jobs[1] IN
             /\ (ENABLED HandleJobAction("start", 1, TRUE))
                    <=> job.status \in {"created", "stopped", "paused", "error"}
             /\ (ENABLED HandleJobAction("pause", 1, TRUE))
                    <=> job.status = "running"
             /\ (ENABLED HandleJobAction("stop", 1, TRUE))
                    <=> job.status \in {"running", "paused"}
             /\ ENABLED HandleJobAction("delete", 1, TRUE)
             /\ (ENABLED HandleViewResults(1)) <=> job.changes_detected # 0)
    /\ [][(/\ view'.did.kind = "user" /\ view' # view
           /\ view'.did.handler = "Dashboard.handleJobAction"
           /\ view'.did.sent # <<>>)
          => LET job == view.dashboard.jobs[1] IN
             /\ view'.did.sent
                    = <<CASE view'.did.arg = "start" -> "startJob"
                          [] view'.did.arg = "pause" -> "pauseJob"
                          [] view'.did.arg = "stop" -> "stopJob"
                          [] view'.did.arg = "delete" -> "deleteJob">>
             /\ view'.did.sent = <<"pauseJob">> => job.status = "running"
             /\ view'.did.sent = <<"startJob">>
                    => job.status \in {"created", "stopped", "paused", "error"}
             /\ view'.did.sent = <<"stopJob">>
                    => job.status \in {"running", "paused"}]_vars

\* the user resumed a paused job: the start request is under way
C24_Witness ==
    /\ view.did.kind = "user" /\ view.did.handler = "Dashboard.handleJobAction"
    /\ view.did.arg = "start" /\ view.did.sent = <<"startJob">>
    /\ view.page = "dashboard"
    /\ view.dashboard.jobs = <<Job(<<"j1">>, "paused", 2)>>
    /\ \E c \in InFlight : c.op = "startJob"


(* ---------------------------------------------------------------------- *)
(* C25                                                                     *)
(* ---------------------------------------------------------------------- *)

\* C25: in every state between the turns of the client the store has a
\* token entry exactly if it has a user entry, and every step that leaves a
\* changed store with a token wrote token and user together, both taken
\* from the one login or register response that settled in the step or
\* from the one loginWithToken call; also with several calls in flight
C25_TokenAndUserTogether ==
    /\ [](HasToken(storage) <=> HasUser(storage))
    /\ [][(storage' # storage /\ (HasToken(storage') \/ HasUser(storage')))
          => \/ /\ SettleStep
                /\ event'.op \in {"login", "register"}
                /\ event'.settled = "resolved" /\ event'.body.success
                /\ event'.body.token # None
                /\ storage' = StoreSession(storage, event'.body.token[1],
                                           event'.body.user)
             \/ /\ StoreStep
                /\ \E token \in Tokens, user \in Users :
                       storage' = StoreSession(storage, token, Some(user))]_vars

\* a login settled with token tok456 and user u2 while a register call is
\* still under way, and the store holds that pair
C25_Witness ==
    /\ event.kind = "settled" /\ event.op = "login"
    /\ event.body.token = Some(<<"tok456">>)
    /\ storage = StoreSession(NoStorage, <<"tok456">>, Some(U2))
    /\ \E c \in InFlight : c.op = "register"


(* ---------------------------------------------------------------------- *)
(* C26                                                                     *)
(* ---------------------------------------------------------------------- *)

\* C26: a 401 response clears the session only if the token cached when it
\* arrives is the one its request was sent with. In RaceSpec no profile
\* fetch was sent with tok456, so the 401 answering a profile fetch leaves
\* the token tok456, which a login stored meanwhile, and its user in place
C26_StaleUnauthorizedKeepsNewToken ==
    [][(/\ SettleStep
        /\ event'.op = "getProfile" /\ event'.status = 401
        /\ getStoredToken(storage) = Some(<<"tok456">>))
       => storage' = storage]_vars


(* ---------------------------------------------------------------------- *)
(* C27                                                                     *)
(* ---------------------------------------------------------------------- *)

\* a login settles when no logout is under way: in LogoutRaceSpec it was
\* called while a logout was under way, that logout has resolved since, and
\* no login was called after it
LoginOutlivedLogout ==
    /\ SettleStep /\ event'.op = "login"
    /\ \A c \in InFlight : c.op # "logout"

\* a logout settles while tok456 is cached: in LogoutRaceSpec a login stored
\* it while the logout was under way
LogoutOutlivedLogin ==
    /\ SettleStep /\ event'.op = "logout"
    /\ getStoredToken(storage) = Some(<<"tok456">>)

\* C27: once logout() has resolved the session stays cleared until a login
\* is called afterwards, so a login that was under way before leaves no
\* token; and the clearing step of logout does not remove the token a login
\* stored while the logout request was under way
C27_LogoutAndLoginDoNotRace ==
    [][/\ LoginOutlivedLogout => ~HasToken(storage') /\ ~HasUser(storage')
       /\ LogoutOutlivedLogin => storage' = storage]_vars


(* ---------------------------------------------------------------------- *)
(* C28                                                                     *)
(* ---------------------------------------------------------------------- *)

\* C28: the user is never left on the dashboard, the new-job form or the
\* results view with no token cached: whenever one of them is displayed and
\* no call is under way any more, isAuthenticated() is true
C28_ProtectedViewHasToken ==
    (view.page \in {"dashboard", "newjob", "results"} /\ calls = EmptyBag)
    => isAuthenticated(storage)


(* ---------------------------------------------------------------------- *)
(* C29                                                                     *)
(* ---------------------------------------------------------------------- *)

\* C29: whenever the auth view, after login or register returned, shows the
\* success notification and navigates to /dashboard, a token is cached and
\* the dashboard is displayed: the user is not bounced back to /auth
C29_SuccessReachesDashboard ==
    [][(/\ ViewSettleTurn
        /\ view'.did.handler = "Auth.handleAuth"
        /\ view'.did.toast.title = "Success!"
        /\ view'.did.navigated = DashboardPath)
       => isAuthenticated(storage') /\ view'.page = "dashboard"]_vars


(* ---------------------------------------------------------------------- *)
(* C30                                                                     *)
(* ---------------------------------------------------------------------- *)

\* C30: the error a caller gets from a failed request is the fixed
\* authentication-failure message or begins with "Network error: ", for
\* every response, a success status with a body that is not JSON included;
\* and it is the fixed message only if the response was a 401, which left
\* neither token nor user in the store
C30_RejectionMessages ==
    CallerGotError
    => /\ \/ event.error = AuthFailedMessage
          \/ StartsWith(event.error, NetworkErrorPrefix)
       /\ event.error = AuthFailedMessage
          => (event.status = 401 /\ ~HasToken(storage) /\ ~HasUser(storage))

====
